---- MODULE Spec2Model ----
(***************************************************************************)
(* Model of eden/common/utils/FaultInjector.cpp.                           *)
(*                                                                         *)
(* The injector's State (the fault table and the blocked-check table) is   *)
(* guarded by one folly::Synchronized lock.  Every lock-held section of    *)
(* the source is one atomic action; code that runs after a lock-held       *)
(* section and touches only what the thread owns runs with it, and code    *)
(* that takes the lock again or acts on other threads (addBlockedFault,    *)
(* abort(), the promise loops of unblock and unblockAllImpl, the second    *)
(* snapshot of waitUntilBlocked) is an action of its own, so that the      *)
(* interleavings of concurrent callers are explored.                       *)
(*                                                                         *)
(* Check calls are numbered in the order in which they took the lock in    *)
(* findFault, faults in the order in which they were registered; a std::   *)
(* promise is named by the number of the call waiting on it.               *)
(***************************************************************************)
EXTENDS Naturals, Sequences, FiniteSets

\* ---------------------------------------------------------------- bounds
\* What the harness driving the injector does over the injector's life.
\* Spec: every operation of the injector.
MaxFaults == 1      \* registrations accepted
MaxCalls  == 1      \* check calls
MaxOps    == 1      \* unblock / unblockAll calls
MaxWaits  == 1      \* waitUntilBlocked calls
\* SpecRules: registration, removal and checks.
RulesMaxFaults == 2
RulesMaxCalls  == 3
\* SpecBlocked: Block faults, checks and every operation on the registry.
BlockedMaxFaults == 1
BlockedMaxCalls  == 2
BlockedMaxOps    == 1
BlockedMaxWaits  == 1
\* SpecRelease: unlimited catch-all Block faults, checks and the releases.
ReleaseMaxFaults == 2
ReleaseMaxCalls  == 3
ReleaseMaxOps    == 1
\* SpecSuspend: unlimited catch-all Block and Delay faults, with everything
\* that may run while a call is suspended.
SuspendMaxFaults == 2
SuspendMaxCalls  == 2
SuspendMaxOps    == 1
\* SpecConcurrent: unlimited catch-all Block faults, checks and releases
\* that overlap.
ConcurrentMaxFaults == 2
ConcurrentMaxCalls  == 2
ConcurrentMaxOps    == 2
\* SpecFrame: Error and Block faults, checks and unblocks.
FrameMaxFaults == 2
FrameMaxCalls  == 2
FrameMaxOps    == 1
MaxCount  == 2      \* largest trigger count passed to a registration

\* ---------------------------------------------------------------- inputs
Classes  == {"open", "read"}
Values   == {"a", "b"}
Patterns == {"a", ".*"}
Counts   == 0..MaxCount

InjectedCause  == "injected"
UnblockCause   == "unblock error"
DestroyedCause == "FaultInjector destroyed"
DisabledCause  == "fault injection is disabled"

\* FaultBehavior: the std::variant<Unit, Block, Delay, exception_wrapper, Kill>.
\* error is "none" when absent (std::nullopt in Delay, unused elsewhere).
UnitB          == [kind |-> "Unit",  error |-> "none"]
BlockB         == [kind |-> "Block", error |-> "none"]
DelayB(err)    == [kind |-> "Delay", error |-> err]
ErrorB(err)    == [kind |-> "Error", error |-> err]
KillB          == [kind |-> "Kill",  error |-> "none"]

\* An F14NodeMap<std::string, std::vector<...>> is a function whose DOMAIN is
\* the set of keys present.
EmptyMap == [c \in {} |-> <<>>]

VARIABLES
    limit,          \* how many registrations, checks, releases and waits the harness makes
    enabled,        \* enabled_, fixed by the constructor
    phase,          \* "running" | "aborted" (Kill ran abort()) | "destroyed"
    faults,         \* State::faults: class -> vector<Fault>
    blockedChecks,  \* State::blockedChecks: class -> vector<BlockedCheck>
    calls,          \* the check calls, in the order they took the lock in findFault
    ops,            \* release operations between their lock-held step and their return
    nOps,           \* release operations started so far
    waiter,         \* the thread inside waitUntilBlocked
    nWaits,         \* waitUntilBlocked calls started so far
    faultLog,       \* history: every Fault ever constructed, by registration number
    ret,            \* what the step just taken returned (or threw) to its caller, if it returned
    log             \* the WARN line of the destructor: <<>> or <<numUnblocked>>

vars == <<limit, enabled, phase, faults, blockedChecks, calls, ops, nOps, waiter,
          nWaits, faultLog, ret, log>>

\* ------------------------------------------------------------- helpers

\* boost::regex_match(value, regex): the whole value must match the pattern.
\* The patterns used are a literal (matches only itself) and ".*" (matches all).
RegexMatch(value, regex) == IF regex = ".*" THEN TRUE ELSE value = regex

\* vector::erase(begin() + i)
EraseAt(s, i) == [j \in 1..(Len(s) - 1) |-> IF j < i THEN s[j] ELSE s[j + 1]]

\* map[key] = list, inserting the key when absent
MapPut(m, k, list) == [c \in (DOMAIN m) \cup {k} |-> IF c = k THEN list ELSE m[c]]

\* map.erase(key)
MapErase(m, k) == [c \in (DOMAIN m) \ {k} |-> m[c]]

\* The list stored for a class, or the empty list when the class has no entry.
ListOf(m, k) == IF k \in DOMAIN m THEN m[k] ELSE <<>>

\* Fault::Fault
Fault(id, regex, b, count) ==
    [id |-> id, keyValueRegex |-> regex, countRemaining |-> count, behavior |-> b]

Idle == [pc |-> "idle", keyClass |-> "open", exit |-> "none"]

NoRet == [op |-> "none", val |-> "none"]

\* An injector whose lock stays taken while a call is suspended.
RunningNoneSuspended ==
    /\ phase = "running"
    /\ \A i \in 1..Len(calls) : calls[i].pc \notin {"blocked", "sleeping"}

Running == phase = "running"

\* The state FaultInjector::FaultInjector leaves, for a harness with budget lim.
Constructed(lim) ==
    /\ limit = lim
    /\ enabled \in BOOLEAN
    /\ phase = "running"
    /\ faults = EmptyMap
    /\ blockedChecks = EmptyMap
    /\ calls = <<>>
    /\ ops = EmptyMap
    /\ nOps = 0
    /\ waiter = Idle
    /\ nWaits = 0
    /\ faultLog = <<>>
    /\ ret = NoRet
    /\ log = <<>>

Init ==
    Constructed([faults |-> MaxFaults, calls |-> MaxCalls,
                 ops |-> MaxOps, waits |-> MaxWaits])

InitRules ==
    Constructed([faults |-> RulesMaxFaults, calls |-> RulesMaxCalls,
                 ops |-> 0, waits |-> 0])

InitBlocked ==
    Constructed([faults |-> BlockedMaxFaults, calls |-> BlockedMaxCalls,
                 ops |-> BlockedMaxOps, waits |-> BlockedMaxWaits])

InitRelease ==
    Constructed([faults |-> ReleaseMaxFaults, calls |-> ReleaseMaxCalls,
                 ops |-> ReleaseMaxOps, waits |-> 0])

InitSuspend ==
    Constructed([faults |-> SuspendMaxFaults, calls |-> SuspendMaxCalls,
                 ops |-> SuspendMaxOps, waits |-> 0])

InitConcurrent ==
    Constructed([faults |-> ConcurrentMaxFaults, calls |-> ConcurrentMaxCalls,
                 ops |-> ConcurrentMaxOps, waits |-> 0])

InitFrame ==
    Constructed([faults |-> FrameMaxFaults, calls |-> FrameMaxCalls,
                 ops |-> FrameMaxOps, waits |-> 0])

\* --------------------------------------------------------- registration

\* The values v for which a fault appended to faultVector with pattern regex is
\* the first fault of the list that matches v (history, for the fault log).
FirstFor(faultVector, regex) ==
    {v \in Values : /\ RegexMatch(v, regex)
                    /\ \A j \in 1..Len(faultVector) :
                          ~RegexMatch(v, faultVector[j].keyValueRegex)}

\* An injectFault without the check of enabled_.
InjectFaultUngated(keyClass, keyValueRegex, behavior, count) ==
    /\ Running
    /\ Len(faultLog) < limit.faults
    /\ faults' = MapPut(faults, keyClass,
           Append(ListOf(faults, keyClass),
                  [id |-> Len(faultLog) + 1, keyValueRegex |-> keyValueRegex,
                   countRemaining |-> count, behavior |-> behavior]))
    /\ faultLog' = Append(faultLog,
           [keyClass |-> keyClass, keyValueRegex |-> keyValueRegex,
            count |-> count, behavior |-> behavior,
            regAfter |-> Len(calls),
            firstFor |-> FirstFor(ListOf(faults, keyClass), keyValueRegex),
            removed |-> FALSE])
    /\ ret' = NoRet
    /\ UNCHANGED <<limit, enabled, phase, blockedChecks, calls, ops, nOps, waiter,
                   nWaits, log>>

\* FaultInjector::injectFault
InjectFault(keyClass, keyValueRegex, behavior, count) ==
    /\ Running
    /\ IF ~enabled
         THEN /\ ret' = [op |-> "inject", val |-> DisabledCause]
              /\ UNCHANGED <<faults, faultLog>>
         ELSE /\ Len(faultLog) < limit.faults
              /\ faults' = MapPut(faults, keyClass,
                     Append(ListOf(faults, keyClass),
                            Fault(Len(faultLog) + 1, keyValueRegex, behavior, count)))
              /\ faultLog' = Append(faultLog,
                     [keyClass |-> keyClass, keyValueRegex |-> keyValueRegex,
                      count |-> count, behavior |-> behavior,
                      regAfter |-> Len(calls),
                      firstFor |-> FirstFor(ListOf(faults, keyClass), keyValueRegex),
                      removed |-> FALSE])
              /\ ret' = NoRet
    /\ UNCHANGED <<limit, enabled, phase, blockedChecks, calls, ops, nOps, waiter, nWaits, log>>

\* FaultInjector::injectError
InjectError ==
    \E c \in Classes, r \in Patterns, n \in Counts :
        InjectFault(c, r, ErrorB(InjectedCause), n)

\* FaultInjector::injectBlock
InjectBlock ==
    \E c \in Classes, r \in Patterns, n \in Counts : InjectFault(c, r, BlockB, n)

\* FaultInjector::injectBlock(keyClass, ".*") with the default count (0)
InjectBlockAll == \E c \in Classes : InjectFault(c, ".*", BlockB, 0)

\* FaultInjector::injectDelay(keyClass, ".*", duration) with count 0
InjectDelayAll == \E c \in Classes : InjectFault(c, ".*", DelayB("none"), 0)

\* FaultInjector::injectDelay
InjectDelay ==
    \E c \in Classes, r \in Patterns, n \in Counts : InjectFault(c, r, DelayB("none"), n)

\* FaultInjector::injectKill
InjectKill ==
    \E c \in Classes, r \in Patterns, n \in Counts : InjectFault(c, r, KillB, n)

\* FaultInjector::injectDelayedError
InjectDelayedError ==
    \E c \in Classes, r \in Patterns, n \in Counts :
        InjectFault(c, r, DelayB(InjectedCause), n)

\* FaultInjector::injectNoop
InjectNoop ==
    \E c \in Classes, r \in Patterns, n \in Counts : InjectFault(c, r, UnitB, n)

\* The log entry of a fault that removeFault took out: it is tracked no further.
Removed ==
    [keyClass |-> "open", keyValueRegex |-> ".*", count |-> 0, behavior |-> UnitB,
     regAfter |-> 0, firstFor |-> {}, removed |-> TRUE]

\* A scan that keeps the last fault with the text instead of stopping at the
\* first.
LastWithText(faultVector, text) ==
    IF \E j \in 1..Len(faultVector) : faultVector[j].keyValueRegex = text
      THEN CHOOSE j \in 1..Len(faultVector) :
              /\ faultVector[j].keyValueRegex = text
              /\ \A k \in (j + 1)..Len(faultVector) : faultVector[k].keyValueRegex # text
      ELSE 0

\* A scan that takes the argument for a regex and runs it over the pattern
\* texts of the registered faults.
FirstMatchedByText(faultVector, text) ==
    IF \E j \in 1..Len(faultVector) : RegexMatch(faultVector[j].keyValueRegex, text)
      THEN CHOOSE j \in 1..Len(faultVector) :
              /\ RegexMatch(faultVector[j].keyValueRegex, text)
              /\ \A k \in 1..(j - 1) : ~RegexMatch(faultVector[k].keyValueRegex, text)
      ELSE 0

\* The scan of removeFault: index of the first fault whose pattern text equals
\* the argument, 0 when there is none.
FirstWithText(faultVector, text) ==
    IF \E j \in 1..Len(faultVector) : faultVector[j].keyValueRegex = text
      THEN CHOOSE j \in 1..Len(faultVector) :
              /\ faultVector[j].keyValueRegex = text
              /\ \A k \in 1..(j - 1) : faultVector[k].keyValueRegex # text
      ELSE 0

\* FaultInjector::removeFault
RemoveFault(keyClass, keyValueRegex) ==
    /\ Running
    /\ IF keyClass \notin DOMAIN faults
         THEN /\ ret' = [op |-> "removeFault", val |-> FALSE]
              /\ UNCHANGED <<faults, faultLog>>
         ELSE LET faultVector == faults[keyClass]
                  i == FirstWithText(faultVector, keyValueRegex)
                  erased == EraseAt(faultVector, i)
              IN IF i = 0
                   THEN /\ ret' = [op |-> "removeFault", val |-> FALSE]
                        /\ UNCHANGED <<faults, faultLog>>
                   ELSE /\ faults' = IF erased = <<>>
                                       THEN MapErase(faults, keyClass)
                                       ELSE MapPut(faults, keyClass, erased)
                        /\ faultLog' = [faultLog EXCEPT ![faultVector[i].id] = Removed]
                        /\ ret' = [op |-> "removeFault", val |-> TRUE]
    /\ UNCHANGED <<limit, enabled, phase, blockedChecks, calls, ops, nOps, waiter, nWaits, log>>

\* ---------------------------------------------------------------- matching

\* A scan that stops at the first fault of the class without matching it.
FirstOfClass(faultVector, keyValue) == IF Len(faultVector) > 0 THEN 1 ELSE 0

\* A scan that keeps the last match instead of returning at the first.
LastMatch(faultVector, keyValue) ==
    IF \E j \in 1..Len(faultVector) : RegexMatch(keyValue, faultVector[j].keyValueRegex)
      THEN CHOOSE j \in 1..Len(faultVector) :
              /\ RegexMatch(keyValue, faultVector[j].keyValueRegex)
              /\ \A k \in (j + 1)..Len(faultVector) :
                    ~RegexMatch(keyValue, faultVector[k].keyValueRegex)
      ELSE 0

\* The scan of findFault: index of the first fault whose pattern matches the
\* whole key value, 0 when there is none.
FirstMatch(faultVector, keyValue) ==
    IF \E j \in 1..Len(faultVector) : RegexMatch(keyValue, faultVector[j].keyValueRegex)
      THEN CHOOSE j \in 1..Len(faultVector) :
              /\ RegexMatch(keyValue, faultVector[j].keyValueRegex)
              /\ \A k \in 1..(j - 1) : ~RegexMatch(keyValue, faultVector[k].keyValueRegex)
      ELSE 0

\* A findFault that decrements a bounded fault and forgets to erase it at zero.
ConsumeNoErase(faultVector, i) ==
    IF faultVector[i].countRemaining > 0
      THEN [faultVector EXCEPT ![i].countRemaining = @ - 1]
      ELSE faultVector

\* A findFault that erases an expiring fault but never decrements the others.
ConsumeNoDecrement(faultVector, i) ==
    IF faultVector[i].countRemaining = 1
      THEN EraseAt(faultVector, i)
      ELSE faultVector

\* A findFault that goes on after its match and also takes one off every
\* later fault that has more than one match left.
ConsumeThrough(faultVector, i) ==
    LET through == [k \in 1..Len(faultVector) |->
                      IF k > i /\ faultVector[k].countRemaining > 1
                        THEN [faultVector[k] EXCEPT !.countRemaining = @ - 1]
                        ELSE faultVector[k]]
    IN IF through[i].countRemaining > 0
         THEN IF through[i].countRemaining - 1 = 0
                THEN EraseAt(through, i)
                ELSE [through EXCEPT ![i].countRemaining = @ - 1]
         ELSE through

\* A findFault that takes a counter of 0 for "no match left" and erases the
\* fault at its next match.
ConsumeEraseAtZero(faultVector, i) ==
    IF faultVector[i].countRemaining <= 1
      THEN EraseAt(faultVector, i)
      ELSE [faultVector EXCEPT ![i].countRemaining = @ - 1]

\* What findFault does to the list once fault i matched: a bounded fault is
\* decremented, and erased when that was its last match; the class entry stays.
Consume(faultVector, i) ==
    IF faultVector[i].countRemaining > 0
      THEN IF faultVector[i].countRemaining - 1 = 0
             THEN EraseAt(faultVector, i)
             ELSE [faultVector EXCEPT ![i].countRemaining = @ - 1]
      ELSE faultVector

\* FaultInjector::findFault on a fault table: the behavior returned, the fault
\* it was snapshotted from (0 for none) and the table it leaves.
FindFault(table, keyClass, keyValue) ==
    IF keyClass \notin DOMAIN table
      THEN [behavior |-> UnitB, fault |-> 0, table |-> table]
      ELSE LET faultVector == table[keyClass]
               i == FirstMatch(faultVector, keyValue)
           IN IF i = 0
                THEN [behavior |-> UnitB, fault |-> 0, table |-> table]
                ELSE [behavior |-> faultVector[i].behavior,
                      fault    |-> faultVector[i].id,
                      table    |-> MapPut(table, keyClass, Consume(faultVector, i))]

\* The arms of the visit in checkAsyncImpl that take no lock and touch nothing
\* shared run with findFault's return: Unit and exception_wrapper give a
\* completed future, Delay a sleeping one.  Block (addBlockedFault takes the
\* lock again) and Kill (abort() ends every thread) are steps of their own.
Visit(behavior) ==
    IF behavior.kind = "Unit" THEN [pc |-> "done", result |-> "ok"]
    ELSE IF behavior.kind = "Error" THEN [pc |-> "done", result |-> behavior.error]
    ELSE IF behavior.kind = "Delay" THEN [pc |-> "sleeping", result |-> "none"]
    ELSE [pc |-> "matched", result |-> "none"]

\* FaultInjector::checkAsyncImpl (and through it checkTryImpl and checkImpl)
\* up to the point where the visit has to take the lock or abort.
CheckAsyncImpl(keyClass, keyValue) ==
    /\ Running
    /\ Len(calls) < limit.calls
    /\ LET f == FindFault(faults, keyClass, keyValue)
           v == Visit(f.behavior)
       IN /\ faults' = f.table
          /\ calls' = Append(calls,
                 [keyClass |-> keyClass, keyValue |-> keyValue,
                  behavior |-> f.behavior, fault |-> f.fault,
                  pc |-> v.pc, result |-> v.result])
    /\ ret' = NoRet
    /\ UNCHANGED <<limit, enabled, phase, blockedChecks, ops, nOps, waiter, nWaits,
                   faultLog, log>>

\* The call's future completes: promise setValue / setException, or the sleep
\* future firing.
Resolve(cs, i, outcome) == [cs EXCEPT ![i].pc = "done", ![i].result = outcome]

\* FaultInjector::addBlockedFault
AddBlockedFault(table, keyClass, keyValue, promise) ==
    MapPut(table, keyClass,
           Append(ListOf(table, keyClass), [keyValue |-> keyValue, promise |-> promise]))

\* A Block arm that looks the fault up again and lets the call through when
\* the fault it matched is no longer in the table.
CheckBlockRecheck(i) ==
    /\ Running
    /\ calls[i].pc = "matched"
    /\ calls[i].behavior.kind = "Block"
    /\ IF \E j \in 1..Len(ListOf(faults, calls[i].keyClass)) :
             faults[calls[i].keyClass][j].id = calls[i].fault
         THEN /\ blockedChecks' = AddBlockedFault(blockedChecks, calls[i].keyClass,
                                                  calls[i].keyValue, i)
              /\ calls' = [calls EXCEPT ![i].pc = "blocked"]
         ELSE /\ blockedChecks' = blockedChecks
              /\ calls' = Resolve(calls, i, "ok")
    /\ ret' = NoRet
    /\ UNCHANGED <<limit, enabled, phase, faults, ops, nOps, waiter, nWaits,
                   faultLog, log>>

\* checkAsyncImpl, the Block arm of the visit
CheckBlock(i) ==
    /\ Running
    /\ calls[i].pc = "matched"
    /\ calls[i].behavior.kind = "Block"
    /\ blockedChecks' = AddBlockedFault(blockedChecks, calls[i].keyClass,
                                        calls[i].keyValue, i)
    /\ calls' = [calls EXCEPT ![i].pc = "blocked"]
    /\ ret' = NoRet
    /\ UNCHANGED <<limit, enabled, phase, faults, ops, nOps, waiter, nWaits,
                   faultLog, log>>

\* folly::futures::sleep(duration) fires, then the deferred throw when there
\* is an error; the injector is not consulted.
DelayElapsed(i) ==
    /\ phase # "aborted"
    /\ calls[i].pc = "sleeping"
    /\ calls' = Resolve(calls, i,
           IF calls[i].behavior.error # "none" THEN calls[i].behavior.error ELSE "ok")
    /\ ret' = NoRet
    /\ UNCHANGED <<limit, enabled, phase, faults, blockedChecks, ops, nOps, waiter,
                   nWaits, faultLog, log>>

\* checkAsyncImpl, the Kill arm of the visit: abort()
CheckKill(i) ==
    /\ Running
    /\ calls[i].pc = "matched"
    /\ calls[i].behavior.kind = "Kill"
    /\ phase' = "aborted"
    /\ calls' = [calls EXCEPT ![i].pc = "killed"]
    /\ ret' = NoRet
    /\ UNCHANGED <<limit, enabled, faults, blockedChecks, ops, nOps, waiter, nWaits,
                   faultLog, log>>

\* ----------------------------------------------------------------- release

\* A loop that puts each match in front of the results instead of behind them.
RECURSIVE PartitionReversed(_, _, _, _, _)
PartitionReversed(list, regex, readIter, results, kept) ==
    IF readIter > Len(list)
      THEN [results |-> results, kept |-> kept]
      ELSE IF RegexMatch(list[readIter].keyValue, regex)
             THEN PartitionReversed(list, regex, readIter + 1,
                                    <<list[readIter]>> \o results, kept)
             ELSE PartitionReversed(list, regex, readIter + 1,
                                    results, Append(kept, list[readIter]))

\* The read/write-iterator loop of extractBlockedChecks from position readIter
\* on: results collects the entries whose key value matches, kept the entries
\* shifted forwards in the array.
RECURSIVE Partition(_, _, _, _, _)
Partition(list, regex, readIter, results, kept) ==
    IF readIter > Len(list)
      THEN [results |-> results, kept |-> kept]
      ELSE IF RegexMatch(list[readIter].keyValue, regex)
             THEN Partition(list, regex, readIter + 1,
                            Append(results, list[readIter]), kept)
             ELSE Partition(list, regex, readIter + 1,
                            results, Append(kept, list[readIter]))

\* An extractBlockedChecks that takes the whole list of the class, whatever
\* the pattern.
ExtractIgnoringPattern(table, keyClass, keyValueRegex) ==
    IF keyClass \notin DOMAIN table
      THEN [results |-> <<>>, table |-> table]
      ELSE [results |-> table[keyClass], table |-> MapErase(table, keyClass)]

\* FaultInjector::extractBlockedChecks: the results and the table it leaves.
ExtractBlockedChecks(table, keyClass, keyValueRegex) ==
    IF keyClass \notin DOMAIN table
      THEN [results |-> <<>>, table |-> table]
      ELSE LET p == Partition(table[keyClass], keyValueRegex, 1, <<>>, <<>>)
           IN [results |-> p.results,
               table   |-> IF p.kept = <<>>
                             THEN MapErase(table, keyClass)
                             ELSE MapPut(table, keyClass, p.kept)]

\* A release operation that has left its lock-held step and has not returned.
Op(kind, keyClass, regex, error, matches, swapped) ==
    [kind |-> kind, keyClass |-> keyClass, regex |-> regex, error |-> error,
     matches |-> matches, swapped |-> swapped]

\* promise.setValue() / promise.setException(error) on every check of a list
RECURSIVE SetAll(_, _, _)
SetAll(cs, list, outcome) ==
    IF list = <<>> THEN cs
    ELSE SetAll(Resolve(cs, Head(list).promise, outcome), Tail(list), outcome)

\* the outer loop of unblockAllImpl over the swapped-out map
RECURSIVE SetAllClasses(_, _, _, _)
SetAllClasses(cs, swapped, keys, outcome) ==
    IF keys = {} THEN cs
    ELSE LET k == CHOOSE k \in keys : TRUE
         IN SetAllClasses(SetAll(cs, swapped[k], outcome), swapped, keys \ {k}, outcome)

\* A count of the classes swapped out instead of the checks in them.
NumUnblockedClasses(swapped, keys) == Cardinality(keys)

\* A count of the calls that have been given a Block and are not resolved,
\* registered or not.
NumGivenBlock(swapped, keys) ==
    Cardinality({i \in 1..Len(calls) : /\ calls[i].behavior.kind = "Block"
                                        /\ calls[i].pc \in {"matched", "blocked"}})

\* numUnblocked of unblockAllImpl
RECURSIVE NumUnblocked(_, _)
NumUnblocked(swapped, keys) ==
    IF keys = {} THEN 0
    ELSE LET k == CHOOSE k \in keys : TRUE
         IN Len(swapped[k]) + NumUnblocked(swapped, keys \ {k})

Outcome(error) == IF error = "none" THEN "ok" ELSE error

\* unblock / unblockWithError up to the return of extractBlockedChecks
UnblockExtract(kind, keyClass, keyValueRegex, error) ==
    /\ Running
    /\ nOps < limit.ops
    /\ LET x == ExtractBlockedChecks(blockedChecks, keyClass, keyValueRegex)
       IN /\ blockedChecks' = x.table
          /\ ops' = MapPut(ops, nOps + 1,
                 Op(kind, keyClass, keyValueRegex, error, x.results, EmptyMap))
    /\ nOps' = nOps + 1
    /\ ret' = NoRet
    /\ UNCHANGED <<limit, enabled, phase, faults, calls, waiter, nWaits, faultLog, log>>

\* FaultInjector::unblock, first half
Unblock == \E c \in Classes, r \in Patterns : UnblockExtract("unblock", c, r, "none")

\* FaultInjector::unblockWithError, first half
UnblockWithError ==
    \E c \in Classes, r \in Patterns :
        UnblockExtract("unblockWithError", c, r, UnblockCause)

\* unblock / unblockWithError: the loop over matches and the return
UnblockReturn(o) ==
    /\ Running
    /\ ops[o].kind \in {"unblock", "unblockWithError"}
    /\ calls' = SetAll(calls, ops[o].matches, Outcome(ops[o].error))
    /\ ret' = [op |-> ops[o].kind, val |-> Len(ops[o].matches)]
    /\ ops' = MapErase(ops, o)
    /\ UNCHANGED <<limit, enabled, phase, faults, blockedChecks, nOps, waiter, nWaits,
                   faultLog, log>>

\* An unblockAllImpl that copies the registry under the lock and leaves it
\* as it was.
UnblockAllCopy(kind, error) ==
    /\ Running
    /\ nOps < limit.ops
    /\ blockedChecks' = blockedChecks
    /\ ops' = MapPut(ops, nOps + 1, Op(kind, "none", "none", error, <<>>, blockedChecks))
    /\ nOps' = nOps + 1
    /\ ret' = NoRet
    /\ UNCHANGED <<limit, enabled, phase, faults, calls, waiter, nWaits, faultLog, log>>

\* unblockAllImpl, the swap under the lock
UnblockAllSwap(kind, error) ==
    /\ Running
    /\ nOps < limit.ops
    /\ blockedChecks' = EmptyMap
    /\ ops' = MapPut(ops, nOps + 1, Op(kind, "none", "none", error, <<>>, blockedChecks))
    /\ nOps' = nOps + 1
    /\ ret' = NoRet
    /\ UNCHANGED <<limit, enabled, phase, faults, calls, waiter, nWaits, faultLog, log>>

\* FaultInjector::unblockAll, first half
UnblockAll == UnblockAllSwap("unblockAll", "none")

\* FaultInjector::unblockAllWithError, first half
UnblockAllWithError == UnblockAllSwap("unblockAllWithError", UnblockCause)

\* unblockAllImpl: the loops over the swapped-out map and the return
UnblockAllReturn(o) ==
    /\ Running
    /\ ops[o].kind \in {"unblockAll", "unblockAllWithError"}
    /\ calls' = SetAllClasses(calls, ops[o].swapped, DOMAIN ops[o].swapped,
                              Outcome(ops[o].error))
    /\ ret' = [op |-> ops[o].kind,
               val |-> NumUnblocked(ops[o].swapped, DOMAIN ops[o].swapped)]
    /\ ops' = MapErase(ops, o)
    /\ UNCHANGED <<limit, enabled, phase, faults, blockedChecks, nOps, waiter, nWaits,
                   faultLog, log>>

\* A destructor that releases the pending checks as unblockAll() does.
DestroyWithSuccess ==
    /\ Running
    /\ \A i \in 1..Len(calls) : calls[i].pc # "matched"
    /\ ops = EmptyMap
    /\ waiter.pc = "idle"
    /\ LET numUnblocked == NumUnblocked(blockedChecks, DOMAIN blockedChecks)
       IN /\ calls' = SetAllClasses(calls, blockedChecks, DOMAIN blockedChecks, "ok")
          /\ log' = IF numUnblocked > 0 THEN <<numUnblocked>> ELSE <<>>
    /\ blockedChecks' = EmptyMap
    /\ phase' = "destroyed"
    /\ ret' = NoRet
    /\ UNCHANGED <<limit, enabled, faults, ops, nOps, waiter, nWaits, faultLog>>

\* FaultInjector::~FaultInjector.  No member function is running on another
\* thread when the object is destroyed; futures already handed out may still
\* be pending.
Destroy ==
    /\ Running
    /\ \A i \in 1..Len(calls) : calls[i].pc # "matched"
    /\ ops = EmptyMap
    /\ waiter.pc = "idle"
    /\ LET numUnblocked == NumUnblocked(blockedChecks, DOMAIN blockedChecks)
       IN /\ calls' = SetAllClasses(calls, blockedChecks, DOMAIN blockedChecks,
                                    Outcome(DestroyedCause))
          /\ log' = IF numUnblocked > 0 THEN <<numUnblocked>> ELSE <<>>
    /\ blockedChecks' = EmptyMap
    /\ phase' = "destroyed"
    /\ ret' = NoRet
    /\ UNCHANGED <<limit, enabled, faults, ops, nOps, waiter, nWaits, faultLog>>

\* ------------------------------------------------------------ introspection

\* A getBlockedFaults that lists the blocked checks of the class last to first.
BlockedFaultsReversed(keyClass) ==
    LET list == ListOf(blockedChecks, keyClass)
    IN [j \in 1..Len(list) |-> list[Len(list) + 1 - j].keyValue]

\* The vector getBlockedFaults builds under the shared lock.
BlockedFaults(keyClass) ==
    LET list == ListOf(blockedChecks, keyClass)
    IN [j \in 1..Len(list) |-> list[j].keyValue]

\* FaultInjector::getBlockedFaults
GetBlockedFaults(keyClass) ==
    /\ Running
    /\ ret' = [op |-> "getBlockedFaults", val |-> BlockedFaults(keyClass)]
    /\ UNCHANGED <<limit, enabled, phase, faults, blockedChecks, calls, ops, nOps, waiter,
                   nWaits, faultLog, log>>

\* waitUntilBlocked is entered: start is taken
WaitStart(keyClass) ==
    /\ Running
    /\ nWaits < limit.waits
    /\ waiter.pc = "idle"
    /\ waiter' = [pc |-> "loop", keyClass |-> keyClass, exit |-> "none"]
    /\ nWaits' = nWaits + 1
    /\ ret' = NoRet
    /\ UNCHANGED <<limit, enabled, phase, faults, blockedChecks, calls, ops, nOps,
                   faultLog, log>>

\* One evaluation of the while condition: either now() has reached
\* start + timeout, or the snapshot of getBlockedFaults is looked at.
WaitPoll(elapsed) ==
    /\ Running
    /\ waiter.pc = "loop"
    /\ waiter' = IF elapsed
                   THEN [waiter EXCEPT !.pc = "final", !.exit = "timeout"]
                   ELSE IF Len(BlockedFaults(waiter.keyClass)) = 0
                          THEN [waiter EXCEPT !.pc = "sleep"]
                          ELSE [waiter EXCEPT !.pc = "final", !.exit = "seen"]
    /\ ret' = NoRet
    /\ UNCHANGED <<limit, enabled, phase, faults, blockedChecks, calls, ops, nOps,
                   nWaits, faultLog, log>>

\* std::this_thread::sleep_for(1ms) returns
WaitWake ==
    /\ Running
    /\ waiter.pc = "sleep"
    /\ waiter' = [waiter EXCEPT !.pc = "loop"]
    /\ ret' = NoRet
    /\ UNCHANGED <<limit, enabled, phase, faults, blockedChecks, calls, ops, nOps,
                   nWaits, faultLog, log>>

\* A result that looks at the blocked checks of every class.
WaitResultAnyClass(keyClass) ==
    \E c \in DOMAIN blockedChecks : Len(blockedChecks[c]) # 0

\* The value waitUntilBlocked returns, from its second snapshot.
WaitResult(keyClass) == Len(BlockedFaults(keyClass)) # 0

\* waitUntilBlocked: the return statement
WaitReturn ==
    /\ Running
    /\ waiter.pc = "final"
    /\ ret' = [op |-> "waitUntilBlocked", val |-> WaitResult(waiter.keyClass)]
    /\ waiter' = [waiter EXCEPT !.pc = "idle"]
    /\ UNCHANGED <<limit, enabled, phase, faults, blockedChecks, calls, ops, nOps, nWaits,
                   faultLog, log>>

\* ------------------------------------------------------------ specification

Next ==
    \/ InjectError
    \/ InjectBlock
    \/ InjectDelay
    \/ InjectKill
    \/ InjectDelayedError
    \/ InjectNoop
    \/ \E c \in Classes, r \in Patterns : RemoveFault(c, r)
    \/ \E c \in Classes, v \in Values : CheckAsyncImpl(c, v)
    \/ \E i \in 1..Len(calls) : CheckBlock(i)
    \/ \E i \in 1..Len(calls) : DelayElapsed(i)
    \/ \E i \in 1..Len(calls) : CheckKill(i)
    \/ Unblock
    \/ UnblockWithError
    \/ \E o \in DOMAIN ops : UnblockReturn(o)
    \/ UnblockAll
    \/ UnblockAllWithError
    \/ \E o \in DOMAIN ops : UnblockAllReturn(o)
    \/ Destroy
    \/ \E c \in Classes : GetBlockedFaults(c)
    \/ \E c \in Classes : WaitStart(c)
    \/ \E e \in BOOLEAN : WaitPoll(e)
    \/ WaitWake
    \/ WaitReturn

\* Every operation, few of each.
Spec == Init /\ [][Next]_vars

\* The rule table under more registrations and checks.  The release and
\* introspection operations are left out: they neither read nor write the
\* fault table or the behavior a call snapshotted.  Two behaviors, one that
\* fails the check and one that passes it, tell the faults apart; findFault
\* treats the behavior as an opaque value.
NextRules ==
    \/ InjectError
    \/ InjectNoop
    \/ \E c \in Classes, r \in Patterns : RemoveFault(c, r)
    \/ \E c \in Classes, v \in Values : CheckAsyncImpl(c, v)

SpecRules == InitRules /\ [][NextRules]_vars

\* The blocked-call registry with everything that runs beside it.  Of the
\* registrations only injectBlock is used: the other behaviors never reach the
\* registry.
NextBlocked ==
    \/ InjectBlock
    \/ \E c \in Classes, r \in Patterns : RemoveFault(c, r)
    \/ \E c \in Classes, v \in Values : CheckAsyncImpl(c, v)
    \/ \E i \in 1..Len(calls) : CheckBlock(i)
    \/ Unblock
    \/ UnblockWithError
    \/ \E o \in DOMAIN ops : UnblockReturn(o)
    \/ UnblockAll
    \/ UnblockAllWithError
    \/ \E o \in DOMAIN ops : UnblockAllReturn(o)
    \/ Destroy
    \/ \E c \in Classes : GetBlockedFaults(c)
    \/ \E c \in Classes : WaitStart(c)
    \/ \E e \in BOOLEAN : WaitPoll(e)
    \/ WaitWake
    \/ WaitReturn

SpecBlocked == InitBlocked /\ [][NextBlocked]_vars

\* The releases under more blocked calls, in both classes.  Every fault is injectBlock(class, ".*"), so every check blocks
\* once its class has a fault.
NextRelease ==
    \/ InjectBlockAll
    \/ \E c \in Classes, v \in Values : CheckAsyncImpl(c, v)
    \/ \E i \in 1..Len(calls) : CheckBlock(i)
    \/ Unblock
    \/ UnblockWithError
    \/ \E o \in DOMAIN ops : UnblockReturn(o)
    \/ UnblockAll
    \/ UnblockAllWithError
    \/ \E o \in DOMAIN ops : UnblockAllReturn(o)
    \/ Destroy

SpecRelease == InitRelease /\ [][NextRelease]_vars

\* What may run while calls are suspended on a Block or on a Delay.  Every
\* fault is unlimited and matches every value, so every check of a class that
\* has a fault is suspended.
NextSuspend ==
    \/ InjectBlockAll
    \/ InjectDelayAll
    \/ \E c \in Classes, r \in Patterns : RemoveFault(c, r)
    \/ \E c \in Classes, v \in Values : CheckAsyncImpl(c, v)
    \/ \E i \in 1..Len(calls) : CheckBlock(i)
    \/ \E i \in 1..Len(calls) : DelayElapsed(i)
    \/ Unblock
    \/ \E o \in DOMAIN ops : UnblockReturn(o)
    \/ \E c \in Classes : GetBlockedFaults(c)

SpecSuspend == InitSuspend /\ [][NextSuspend]_vars

\* Releases that overlap: a second release may take its lock-held step while
\* the first is between its own and its return.
NextConcurrent ==
    \/ InjectBlockAll
    \/ \E c \in Classes, v \in Values : CheckAsyncImpl(c, v)
    \/ \E i \in 1..Len(calls) : CheckBlock(i)
    \/ Unblock
    \/ UnblockWithError
    \/ \E o \in DOMAIN ops : UnblockReturn(o)
    \/ UnblockAll
    \/ UnblockAllWithError
    \/ \E o \in DOMAIN ops : UnblockAllReturn(o)
    \/ Destroy

SpecConcurrent == InitConcurrent /\ [][NextConcurrent]_vars

\* Faults that block and faults that do not, in both classes, with the checks
\* and the unblocks: what a match and an unblock leave alone.
NextFrame ==
    \/ InjectError
    \/ InjectBlock
    \/ \E c \in Classes, v \in Values : CheckAsyncImpl(c, v)
    \/ \E i \in 1..Len(calls) : CheckBlock(i)
    \/ Unblock
    \/ UnblockWithError
    \/ \E o \in DOMAIN ops : UnblockReturn(o)

SpecFrame == InitFrame /\ [][NextFrame]_vars

\* =================================================================== claims

Min(a, b) == IF a < b THEN a ELSE b

\* The calls that were given the behavior of the fault registered f-th.
Served(f) == {i \in 1..Len(calls) : calls[i].fault = f}

\* The calls on (the class of fault f, v) that took the lock after f was registered.
Racing(f, v) ==
    {i \in (faultLog[f].regAfter + 1)..Len(calls) :
        calls[i].keyClass = faultLog[f].keyClass /\ calls[i].keyValue = v}

\* The first n members of a set of calls, in lock order.
FirstN(S, n) == {i \in S : Cardinality({j \in S : j < i}) < n}

\* The entries of the fault registered f-th that are in the table now.
Entries(f) ==
    LET list == ListOf(faults, faultLog[f].keyClass)
    IN {j \in 1..Len(list) : list[j].id = f}

\* C1: a fault registered with count N > 0, first in its class to match v and
\* not removed by removeFault, is observed by exactly the first min(N, K) of
\* the K calls racing on (class, v), in the order they took the lock, and each
\* of them decremented the counter once: the fault holds N minus the number
\* served while that is positive and is gone once it is zero.
C1_BoundedFaultServesFirstN ==
    \A f \in 1..Len(faultLog) : \A v \in faultLog[f].firstFor :
        (/\ faultLog[f].count > 0
         /\ ~faultLog[f].removed
         /\ Served(f) \subseteq Racing(f, v))
        => LET N == faultLog[f].count
               K == Cardinality(Racing(f, v))
               list == ListOf(faults, faultLog[f].keyClass)
           IN /\ Cardinality(Served(f)) = Min(N, K)
              /\ Served(f) = FirstN(Racing(f, v), N)
              /\ \A i \in Served(f) : calls[i].behavior = faultLog[f].behavior
              /\ IF K < N
                   THEN /\ Cardinality(Entries(f)) = 1
                        /\ \A j \in Entries(f) : list[j].countRemaining = N - K
                   ELSE Entries(f) = {}

\* C1 witness: a fault registered with count 2 has been raced by three calls,
\* of which two were served, with a later fault of the class taking the third.
C1_Witness ==
    \E f \in 1..Len(faultLog) : \E v \in faultLog[f].firstFor :
        /\ faultLog[f].count = 2
        /\ ~faultLog[f].removed
        /\ Served(f) \subseteq Racing(f, v)
        /\ Cardinality(Racing(f, v)) = 3
        /\ Cardinality(Served(f)) = 2
        /\ \E i \in Racing(f, v) : calls[i].fault # f /\ calls[i].fault # 0

\* The faults of the checked class whose pattern matches the checked value,
\* as positions in the list the check found.
Matching(list, keyValue) ==
    {j \in 1..Len(list) : RegexMatch(keyValue, list[j].keyValueRegex)}

\* C2: when a check takes the lock and several faults of its class match its
\* value, the call gets the behavior of the one registered earliest among
\* those in the list, and that behavior is what the call observes.
C2_FirstRegisteredMatchWins ==
    [][Len(calls') = Len(calls) + 1 =>
         LET c == calls'[Len(calls')]
             list == ListOf(faults, c.keyClass)
             M == Matching(list, c.keyValue)
         IN M # {} =>
              \E j \in M :
                  /\ \A k \in M : list[j].id <= list[k].id
                  /\ c.fault = list[j].id
                  /\ c.behavior = list[j].behavior
                  /\ (c.behavior.kind = "Error" => c.result = c.behavior.error)
                  /\ (c.behavior.kind = "Unit" => c.result = "ok")
                  /\ (c.behavior.kind \in {"Block", "Delay", "Kill"} => c.result = "none")
      ]_vars

\* C2 witness: a call was served by one fault while a fault registered later
\* in the same class, with another behavior and also matching the call's
\* value, was in the list when the call was made and still is.
C2_Witness ==
    \E i \in 1..Len(calls) :
        LET list == ListOf(faults, calls[i].keyClass)
        IN /\ calls[i].fault # 0
           /\ \E j \in Matching(list, calls[i].keyValue) :
                 /\ list[j].id > calls[i].fault
                 /\ faultLog[list[j].id].regAfter < i
                 /\ list[j].behavior # calls[i].behavior

\* C8 (as claimed): no class entry of the fault table or of the blocked-call
\* table holds an empty list.
C8_NoEmptyClassEntry ==
    /\ \A c \in DOMAIN faults : Len(faults[c]) > 0
    /\ \A c \in DOMAIN blockedChecks : Len(blockedChecks[c]) > 0

\* The bounded faults of class keyClass matching keyValue that had served all
\* their matches before the call now taking the lock.
Expired(keyClass, keyValue) ==
    {f \in 1..Len(faultLog) :
        /\ faultLog[f].count > 0
        /\ faultLog[f].keyClass = keyClass
        /\ RegexMatch(keyValue, faultLog[f].keyValueRegex)
        /\ Cardinality(Served(f)) = faultLog[f].count}

\* C9 (as claimed): once a bounded fault has served its N matches, every later
\* check whose value matches its pattern observes NoOp.
C9_ExpiredThenNoOp ==
    [][Len(calls') = Len(calls) + 1 =>
         LET c == calls'[Len(calls')]
         IN Expired(c.keyClass, c.keyValue) # {} =>
               c.behavior = UnitB /\ c.result = "ok"
      ]_vars

\* C9 (amended): once a bounded fault has served its N matches it serves no
\* later check; a later check whose value matches its pattern observes the
\* earliest-registered fault still in the class's list that matches the value,
\* and NoOp when no fault in the list matches.
C9_ExpiredThenNextMatch ==
    [][Len(calls') = Len(calls) + 1 =>
         LET c == calls'[Len(calls')]
             list == ListOf(faults, c.keyClass)
             M == Matching(list, c.keyValue)
         IN Expired(c.keyClass, c.keyValue) # {} =>
               /\ c.fault \notin Expired(c.keyClass, c.keyValue)
               /\ M = {} => (c.fault = 0 /\ c.behavior = UnitB /\ c.result = "ok")
               /\ M # {} => \E j \in M : /\ \A k \in M : j <= k
                                          /\ c.fault = list[j].id
                                          /\ c.behavior = list[j].behavior
      ]_vars

\* C9 witness: a check made after a bounded Error fault matching its value had
\* expired was served by another fault; and one such check passed as NoOp.
C9_Witness ==
    /\ \E i \in 1..Len(calls) : \E f \in 1..Len(faultLog) :
          /\ faultLog[f].count > 0
          /\ faultLog[f].keyClass = calls[i].keyClass
          /\ RegexMatch(calls[i].keyValue, faultLog[f].keyValueRegex)
          /\ Cardinality({j \in Served(f) : j < i}) = faultLog[f].count
          /\ calls[i].fault \notin {0, f}
          /\ calls[i].result = InjectedCause
    /\ \E i \in 1..Len(calls) : \E f \in 1..Len(faultLog) :
          /\ faultLog[f].count > 0
          /\ faultLog[f].keyClass = calls[i].keyClass
          /\ RegexMatch(calls[i].keyValue, faultLog[f].keyValueRegex)
          /\ Cardinality({j \in Served(f) : j < i}) = faultLog[f].count
          /\ calls[i].fault = 0

\* The promises (call numbers) held in a list of blocked checks / in a table.
Promises(list) == {list[j].promise : j \in 1..Len(list)}
TablePromises(table) == UNION {Promises(table[c]) : c \in DOMAIN table}

\* The promises a release operation took out of the registry.
Taken(op) == Promises(op.matches) \cup TablePromises(op.swapped)

UnblockKinds    == {"unblock", "unblockWithError"}
UnblockAllKinds == {"unblockAll", "unblockAllWithError"}

\* The release operation op is one that acts on blocked call i: an unblockAll,
\* or an unblock naming the call's class with a pattern matching its value.
Targets(op, i) ==
    \/ op.kind \in UnblockAllKinds
    \/ /\ op.kind \in UnblockKinds
       /\ op.keyClass = calls[i].keyClass
       /\ RegexMatch(calls[i].keyValue, op.regex)

\* C3: a call registered as blocked is unresolved, and a step takes it out of
\* the registry or resolves it only if the step is the destruction of the
\* injector or belongs to an unblockAll / unblockAllWithError or to an
\* unblock / unblockWithError on its class whose pattern matches its value.
C3_BlockedUntilReleased ==
    [][\A i \in 1..Len(calls) :
          calls[i].pc = "blocked" =>
            /\ calls[i].result = "none"
            /\ (i \in TablePromises(blockedChecks) /\ i \notin TablePromises(blockedChecks'))
                 => \/ phase' = "destroyed"
                    \/ \E o \in DOMAIN ops' \ DOMAIN ops :
                          Targets(ops'[o], i) /\ i \in Taken(ops'[o])
            /\ calls'[i] # calls[i]
                 => \/ phase' = "destroyed"
                    \/ \E o \in DOMAIN ops \ DOMAIN ops' :
                          Targets(ops[o], i) /\ i \in Taken(ops[o])
      ]_vars

\* C3 witness: a call is still pending in the registry although the Block
\* fault it matched has expired and an unblock that does not match it has
\* just returned 0.
C3_Witness ==
    \E i \in 1..Len(calls) :
        /\ calls[i].pc = "blocked"
        /\ i \in TablePromises(blockedChecks)
        /\ faultLog[calls[i].fault].count > 0
        /\ Entries(calls[i].fault) = {}
        /\ ret.op = "unblock"
        /\ ret.val = 0

\* s holds only entries of t, in the order they have in t.
InOrderOf(s, t) ==
    /\ \A k \in 1..Len(s) : \E j \in 1..Len(t) : t[j] = s[k]
    /\ \A k1, k2 \in 1..Len(s) :
          k1 < k2 => \E j1, j2 \in 1..Len(t) : j1 < j2 /\ t[j1] = s[k1] /\ t[j2] = s[k2]

\* C4: unblock / unblockWithError take out of the class's list exactly the
\* entries whose key value matches the pattern, keep the others in the list,
\* both in their former order; the operation then resolves exactly the calls
\* it took (with success, respectively with its cause), leaves every other
\* call as it was, and returns the number of entries it took.
C4_UnblockExtractsMatches ==
    [][/\ \A o \in DOMAIN ops' \ DOMAIN ops :
             ops'[o].kind \in UnblockKinds =>
               LET op == ops'[o]
                   before == ListOf(blockedChecks, op.keyClass)
                   after == ListOf(blockedChecks', op.keyClass)
               IN /\ \A j \in 1..Len(before) :
                        IF RegexMatch(before[j].keyValue, op.regex)
                          THEN /\ before[j].promise \in Promises(op.matches)
                               /\ before[j].promise \notin Promises(after)
                          ELSE /\ before[j].promise \in Promises(after)
                               /\ before[j].promise \notin Promises(op.matches)
                  /\ Len(op.matches) + Len(after) = Len(before)
                  /\ InOrderOf(op.matches, before)
                  /\ InOrderOf(after, before)
                  /\ calls' = calls
       /\ \A o \in DOMAIN ops \ DOMAIN ops' :
             ops[o].kind \in UnblockKinds =>
               /\ ret' = [op |-> ops[o].kind, val |-> Cardinality(Promises(ops[o].matches))]
               /\ \A i \in 1..Len(calls) :
                     IF i \in Promises(ops[o].matches)
                       THEN /\ calls'[i].pc = "done"
                            /\ calls'[i].result =
                                 IF ops[o].kind = "unblock" THEN "ok" ELSE UnblockCause
                       ELSE calls'[i] = calls[i]
      ]_vars

\* C4 witness: an unblockWithError has just returned 2, and of three calls
\* blocked in one class the one registered between the two it failed is
\* still pending in the list.
C4_Witness ==
    /\ ret.op = "unblockWithError"
    /\ ret.val = 2
    /\ \E c \in DOMAIN blockedChecks : \E i, j, k \in 1..Len(calls) :
          /\ i < k /\ k < j
          /\ calls[i].keyClass = c /\ calls[j].keyClass = c /\ calls[k].keyClass = c
          /\ calls[i].result = UnblockCause
          /\ calls[j].result = UnblockCause
          /\ calls[k].pc = "blocked"
          /\ k \in Promises(blockedChecks[c])

\* C5: unblockAll / unblockAllWithError take every blocked call of every
\* class out of the registry, leaving it empty; the operation then resolves
\* every call it took (with success, respectively with its cause) and
\* returns how many they were.
C5_UnblockAllReleasesAll ==
    [][/\ \A o \in DOMAIN ops' \ DOMAIN ops :
             ops'[o].kind \in UnblockAllKinds =>
               /\ Taken(ops'[o]) = TablePromises(blockedChecks)
               /\ DOMAIN blockedChecks' = {}
       /\ \A o \in DOMAIN ops \ DOMAIN ops' :
             ops[o].kind \in UnblockAllKinds =>
               /\ ret' = [op |-> ops[o].kind, val |-> Cardinality(Taken(ops[o]))]
               /\ \A i \in 1..Len(calls) :
                     IF i \in Taken(ops[o])
                       THEN /\ calls'[i].pc = "done"
                            /\ calls'[i].result =
                                 IF ops[o].kind = "unblockAll" THEN "ok" ELSE UnblockCause
                       ELSE calls'[i] = calls[i]
      ]_vars

\* C5 witness: an unblockAll has just returned 3 after releasing blocked
\* calls of both classes.
C5_Witness ==
    /\ ret.op = "unblockAll"
    /\ ret.val = 3
    /\ DOMAIN blockedChecks = {}
    /\ \A c \in Classes : \E i \in 1..Len(calls) :
          /\ calls[i].keyClass = c
          /\ calls[i].behavior = BlockB
          /\ calls[i].result = "ok"

\* C6: the destruction of the injector fails every call pending in the
\* registry with the "FaultInjector destroyed" error, touches no other call,
\* empties the registry, and reports the number of calls it failed when
\* that is not zero and nothing otherwise.
C6_DestructionFailsPending ==
    [][(phase = "running" /\ phase' = "destroyed") =>
         LET pending == TablePromises(blockedChecks)
         IN /\ \A i \in 1..Len(calls) :
                  IF i \in pending
                    THEN calls'[i].pc = "done" /\ calls'[i].result = DestroyedCause
                    ELSE calls'[i] = calls[i]
            /\ \A i \in 1..Len(calls) : calls[i].pc = "blocked" => i \in pending
            /\ DOMAIN blockedChecks' = {}
            /\ log' = IF Cardinality(pending) > 0 THEN <<Cardinality(pending)>> ELSE <<>>
            /\ DestroyedCause \notin {"ok", InjectedCause, UnblockCause}
      ]_vars

\* C6 witness: the injector was destroyed with one call pending; the call
\* failed with the destruction error and one forced release was reported.
C6_Witness ==
    /\ phase = "destroyed"
    /\ log = <<1>>
    /\ Cardinality({i \in 1..Len(calls) : calls[i].result = DestroyedCause}) = 1

\* C7: on an injector constructed disabled no registration is ever accepted
\* (each throws the "disabled" error), so the fault table and the registry
\* stay empty, every check completes as plain success, and the other
\* operations, which stay callable, find nothing.
C7_DisabledRefusesRegistration ==
    ~enabled =>
        /\ DOMAIN faults = {}
        /\ DOMAIN blockedChecks = {}
        /\ Len(faultLog) = 0
        /\ \A i \in 1..Len(calls) :
              /\ calls[i].behavior = UnitB
              /\ calls[i].pc = "done"
              /\ calls[i].result = "ok"
        /\ ret.op = "inject" => ret.val = DisabledCause
        /\ ret.op = "removeFault" => ret.val = FALSE
        /\ ret.op \in UnblockKinds \cup UnblockAllKinds => ret.val = 0
        /\ ret.op = "getBlockedFaults" => Len(ret.val) = 0
        /\ ret.op = "waitUntilBlocked" => ret.val = FALSE

\* C7 witness: on a disabled injector a check and a release have completed
\* and a registration has just been refused.
C7_Witness ==
    /\ ~enabled
    /\ Len(calls) >= 1
    /\ nOps >= 1
    /\ ops = EmptyMap
    /\ ret.op = "inject"
    /\ ret.val = DisabledCause

\* C10 (as claimed): waitUntilBlocked returns false only when its timeout
\* elapsed, and true once its poll has seen a blocked call of the class.
C10_FalseOnlyOnTimeout ==
    ret.op = "waitUntilBlocked" =>
        /\ ret.val = FALSE => waiter.exit = "timeout"
        /\ waiter.exit = "seen" => ret.val = TRUE

\* C10 (amended): waitUntilBlocked returns whether the class's blocked list
\* is non-empty at its final snapshot, whichever way its loop ended.
C10_ReturnsFinalSnapshot ==
    [][ret'.op = "waitUntilBlocked" =>
         /\ waiter.pc = "final"
         /\ waiter.exit \in {"timeout", "seen"}
         /\ ret'.val = (\E c \in DOMAIN blockedChecks :
                           c = waiter.keyClass /\ Len(blockedChecks[c]) > 0)
      ]_vars

\* C10 witness: a wait whose poll saw a blocked call has returned false,
\* the call having been released before the final snapshot.
C10_Witness ==
    /\ ret.op = "waitUntilBlocked"
    /\ ret.val = FALSE
    /\ waiter.exit = "seen"

\* No fault of the class has the original pattern text given.
NoFaultWithText(keyClass, text) ==
    \A j \in 1..Len(ListOf(faults, keyClass)) :
        ListOf(faults, keyClass)[j].keyValueRegex # text

\* C11: a removeFault(class, text) made when no fault of the class has text as
\* its original pattern text (the class may have no entry, and text may match
\* a registered pattern text as a regex) returns false and leaves the fault
\* table, the blocked-call registry and every call as they were.
C11_RemoveFaultMissIsNoOp ==
    [][\A c \in Classes, r \in Patterns :
          (RemoveFault(c, r) /\ NoFaultWithText(c, r)) =>
              /\ ret' = [op |-> "removeFault", val |-> FALSE]
              /\ faults' = faults
              /\ blockedChecks' = blockedChecks
              /\ calls' = calls
      ]_vars

\* C11 witness: a removeFault has just returned false while the only fault
\* registered has the pattern text "a", which the text ".*" matches as a
\* regex, the other class has no entry, and a call is held in the registry.
C11_Witness ==
    /\ ret = [op |-> "removeFault", val |-> FALSE]
    /\ \E c \in Classes :
          /\ DOMAIN faults = {c}
          /\ Len(faults[c]) = 1
          /\ faults[c][1].keyValueRegex = "a"
    /\ DOMAIN blockedChecks # {}

\* C12: a check on (class, value) made when no fault registered in the class
\* has a pattern matching the whole value (the class may have no entry) is
\* complete when findFault returns, as plain success, and leaves the fault
\* table, the blocked-call registry and every earlier call as they were.
C12_NoMatchIsPlainSuccess ==
    [][Len(calls') = Len(calls) + 1 =>
         LET c == calls'[Len(calls')]
         IN Matching(ListOf(faults, c.keyClass), c.keyValue) = {} =>
               /\ c.fault = 0
               /\ c.behavior = UnitB
               /\ c.pc = "done"
               /\ c.result = "ok"
               /\ faults' = faults
               /\ blockedChecks' = blockedChecks
               /\ \A i \in 1..Len(calls) : calls'[i] = calls[i]
      ]_vars

\* C12 witness: a check passed as plain success although its class held a
\* fault when it was made (one whose pattern does not match its value),
\* while another call was held in the registry.
C12_Witness ==
    \E i \in 1..Len(calls) :
        /\ calls[i].fault = 0
        /\ calls[i].pc = "done"
        /\ calls[i].result = "ok"
        /\ \E f \in 1..Len(faultLog) :
              /\ ~faultLog[f].removed
              /\ faultLog[f].keyClass = calls[i].keyClass
              /\ faultLog[f].regAfter < i
              /\ faultLog[f].count = 0
              /\ ~RegexMatch(calls[i].keyValue, faultLog[f].keyValueRegex)
        /\ \E j \in 1..(i - 1) : j \in TablePromises(blockedChecks)

\* The calls of a class that registered as blocked in the step being taken.
Registering(keyClass) ==
    {i \in 1..Len(calls) : /\ calls[i].keyClass = keyClass
                           /\ calls[i].pc = "matched"
                           /\ calls'[i].pc = "blocked"}

\* C13: the blocked list of a class holds the calls registered as blocked in
\* it and not yet taken out, each under its own key value, in the order in
\* which they registered (a registration appends, every other step keeps the
\* order of the entries it leaves), and getBlockedFaults(class) returns the
\* key values of exactly those calls in that order, empty for a class without
\* blocked calls, changing nothing.
C13_GetBlockedFaultsInOrder ==
    [][/\ \A c \in Classes :
             LET before == ListOf(blockedChecks, c)
                 after == ListOf(blockedChecks', c)
             IN /\ \A j \in 1..Len(before) :
                      /\ calls[before[j].promise].pc = "blocked"
                      /\ calls[before[j].promise].keyClass = c
                      /\ calls[before[j].promise].keyValue = before[j].keyValue
                /\ IF Registering(c) # {}
                     THEN \E i \in Registering(c) :
                             after = Append(before, [keyValue |-> calls[i].keyValue,
                                                     promise |-> i])
                     ELSE InOrderOf(after, before)
                /\ GetBlockedFaults(c) =>
                      /\ ret'.op = "getBlockedFaults"
                      /\ Len(ret'.val) = Len(before)
                      /\ \A j \in 1..Len(before) :
                            ret'.val[j] = calls[before[j].promise].keyValue
                      /\ blockedChecks' = blockedChecks
                      /\ faults' = faults
                      /\ calls' = calls
      ]_vars

\* C13 witness: getBlockedFaults has just returned <<"b", "a">> for a class
\* in which the call on "b", the second to take the lock in findFault, was the
\* first to register as blocked, and the call on "a" the second.
C13_Witness ==
    /\ ret = [op |-> "getBlockedFaults", val |-> <<"b", "a">>]
    /\ Len(calls) = 2
    /\ calls[1].keyValue = "a"
    /\ calls[2].keyValue = "b"
    /\ calls[1].keyClass = calls[2].keyClass
    /\ calls[1].pc = "blocked"
    /\ calls[2].pc = "blocked"
    /\ Len(ListOf(blockedChecks, calls[1].keyClass)) = 2

\* The faults in the table, as (class, position) pairs.
InTable(table) == UNION {{<<c, j>> : j \in 1..Len(table[c])} : c \in DOMAIN table}

\* The registration numbers of the faults in the table.
IdsIn(table) == {table[e[1]][e[2]].id : e \in InTable(table)}

\* C14: a fault registered with count 0 keeps the counter 0 however often it
\* matches and leaves its list only in a removeFault that returns true; a
\* fault registered with count N > 0 holds a counter between 1 and N while it
\* is in its list, each match takes one off, and the match that would bring
\* the counter to zero erases the fault in the same step, so the list never
\* holds a bounded fault with no match left.
C14_UnlimitedStaysBoundedLeaves ==
    [][/\ \A e \in InTable(faults') :
             LET fault == faults'[e[1]][e[2]]
             IN IF faultLog'[fault.id].count = 0
                  THEN fault.countRemaining = 0
                  ELSE /\ fault.countRemaining >= 1
                       /\ fault.countRemaining <= faultLog'[fault.id].count
       /\ \A f \in IdsIn(faults) \ IdsIn(faults') :
             \/ /\ faultLog[f].count = 0
                /\ ret' = [op |-> "removeFault", val |-> TRUE]
                /\ Len(calls') = Len(calls)
             \/ /\ faultLog[f].count > 0
                /\ \/ ret' = [op |-> "removeFault", val |-> TRUE]
                   \/ /\ Len(calls') = Len(calls) + 1
                      /\ calls'[Len(calls')].fault = f
                      /\ \E e \in InTable(faults) :
                            /\ faults[e[1]][e[2]].id = f
                            /\ faults[e[1]][e[2]].countRemaining = 1
       /\ Len(calls') = Len(calls) + 1 =>
             \A e \in InTable(faults) :
                LET fault == faults[e[1]][e[2]]
                    f == fault.id
                IN calls'[Len(calls')].fault = f =>
                     IF fault.countRemaining = 0
                       THEN f \in IdsIn(faults') /\ faults' = faults
                       ELSE IF fault.countRemaining = 1
                              THEN f \notin IdsIn(faults')
                              ELSE \E e2 \in InTable(faults') :
                                      /\ faults'[e2[1]][e2[2]].id = f
                                      /\ faults'[e2[1]][e2[2]].countRemaining =
                                            fault.countRemaining - 1
      ]_vars

\* C14 witness: a fault registered with count 0 has matched two calls and is
\* in its list with counter 0, and a fault registered with count 1 in the
\* same class has matched one call and is gone from the list.
C14_Witness ==
    \E f, g \in 1..Len(faultLog) :
        /\ faultLog[f].count = 0
        /\ ~faultLog[f].removed
        /\ Cardinality(Served(f)) = 2
        /\ \E j \in Entries(f) :
              ListOf(faults, faultLog[f].keyClass)[j].countRemaining = 0
        /\ faultLog[g].count = 1
        /\ ~faultLog[g].removed
        /\ faultLog[g].keyClass = faultLog[f].keyClass
        /\ Cardinality(Served(g)) = 1
        /\ Entries(g) = {}

\* The calls suspended on a Block (registered, unresolved) or on a Delay.
Suspended == {i \in 1..Len(calls) : calls[i].pc \in {"blocked", "sleeping"}}

OutcomeOf(behavior) ==
    IF behavior.kind = "Unit" THEN "ok"
    ELSE IF behavior.kind = "Error" THEN behavior.error
    ELSE IF behavior.kind = "Delay" THEN Outcome(behavior.error)
    ELSE "none"

WithText(list, text) == {j \in 1..Len(list) : list[j].keyValueRegex = text}

\* C17: a removeFault(class, text) made when the class holds faults with text
\* as their original pattern text returns true and takes out one fault, the
\* one of them nearest the front of the list (the earliest registered): the
\* faults before it stay where they are, those behind it (later faults with
\* the same text among them) move up one place, each with its counter and
\* behavior, the entry of the class goes exactly when that was its only
\* fault, and no other class is touched.
C17_RemoveFaultTakesEarliest ==
    [][\A c \in Classes, r \in Patterns :
          (RemoveFault(c, r) /\ ~NoFaultWithText(c, r)) =>
              LET list == faults[c]
                  j == CHOOSE j \in WithText(list, r) : \A k \in WithText(list, r) : j <= k
              IN /\ ret' = [op |-> "removeFault", val |-> TRUE]
                 /\ IF Len(list) = 1
                      THEN DOMAIN faults' = DOMAIN faults \ {c}
                      ELSE /\ DOMAIN faults' = DOMAIN faults
                           /\ Len(faults'[c]) = Len(list) - 1
                           /\ \A k \in 1..(j - 1) : faults'[c][k] = list[k]
                           /\ \A k \in j..(Len(list) - 1) : faults'[c][k] = list[k + 1]
                 /\ \A d \in DOMAIN faults \ {c} : faults'[d] = faults[d]
                 /\ blockedChecks' = blockedChecks
                 /\ calls' = calls
      ]_vars

\* C17 witness: a removeFault has just returned true after taking out the
\* first of two faults registered with the text ".*" in one class: the first
\* fault had served a call on "b" made when both were registered, and the
\* second is still in the list with the count it was registered with.
C17_Witness ==
    /\ ret = [op |-> "removeFault", val |-> TRUE]
    /\ Len(faultLog) = 2
    /\ faultLog[1].removed
    /\ ~faultLog[2].removed
    /\ faultLog[2].keyValueRegex = ".*"
    /\ faultLog[2].count = 2
    /\ \E i \in 1..Len(calls) :
          /\ calls[i].fault = 1
          /\ calls[i].keyValue = "b"
          /\ calls[i].keyClass = faultLog[2].keyClass
          /\ faultLog[2].regAfter < i
    /\ faults = MapPut(EmptyMap, faultLog[2].keyClass,
                       <<Fault(2, ".*", faultLog[2].behavior, 2)>>)

\* The number of entries a release operation holds / a table holds.
Held(op) == Len(op.matches) + NumUnblocked(op.swapped, DOMAIN op.swapped)
TableSize(table) == NumUnblocked(table, DOMAIN table)

\* The calls registered as blocked and not resolved.
Pending == {i \in 1..Len(calls) : calls[i].pc = "blocked"}

\* The outcome a release operation gives the calls it took.
Gives(op) == IF op.kind \in {"unblock", "unblockAll"} THEN "ok" ELSE UnblockCause

\* Every pending call is held in exactly one place, once: in the registry or
\* by one release operation in flight; whatever is held there is pending.
HeldOnce ==
    /\ Cardinality(TablePromises(blockedChecks)) = TableSize(blockedChecks)
    /\ \A o \in DOMAIN ops :
          /\ Cardinality(Taken(ops[o])) = Held(ops[o])
          /\ Taken(ops[o]) \cap TablePromises(blockedChecks) = {}
          /\ \A o2 \in DOMAIN ops \ {o} : Taken(ops[o]) \cap Taken(ops[o2]) = {}
    /\ phase # "destroyed" =>
          Pending = TablePromises(blockedChecks)
                      \cup UNION {Taken(ops[o]) : o \in DOMAIN ops}
    /\ \A i \in Pending : calls[i].result = "none"

MatchedBlock ==
    {i \in 1..Len(calls) : calls[i].pc = "matched" /\ calls[i].behavior.kind = "Block"}

\* The calls of a class that are registered as blocked, in the registry.
RegisteredIn(keyClass) ==
    {i \in Pending : /\ calls[i].keyClass = keyClass
                     /\ i \in TablePromises(blockedChecks)}

\* C19: between findFault and addBlockedFault a call that was given a Block
\* is in no blocked list and is held by no release; getBlockedFaults reports
\* as many values as there are calls registered in the class, a release
\* takes only registered calls and leaves the others as they are, and an
\* unblockAll returns the number of calls that were registered when it
\* swapped the registry out.  The call registers afterwards and is then
\* pending in the registry.
C19_MatchedNotYetRegistered ==
    [][/\ \A i \in MatchedBlock :
             /\ i \notin TablePromises(blockedChecks)
             /\ \A o \in DOMAIN ops : i \notin Taken(ops[o])
             /\ calls'[i] # calls[i] =>
                   /\ calls'[i].pc = "blocked"
                   /\ calls'[i].result = "none"
                   /\ i \in TablePromises(blockedChecks')
             /\ calls'[i] = calls[i] => i \notin TablePromises(blockedChecks')
       /\ \A c \in Classes :
             GetBlockedFaults(c) => Len(ret'.val) = Cardinality(RegisteredIn(c))
       /\ \A o \in DOMAIN ops' \ DOMAIN ops :
             /\ Taken(ops'[o]) \subseteq Pending
             /\ ops'[o].kind \in UnblockAllKinds =>
                   Taken(ops'[o]) = UNION {RegisteredIn(c) : c \in Classes}
       /\ \A o \in DOMAIN ops \ DOMAIN ops' :
             /\ ret'.val = Cardinality(Taken(ops[o]))
             /\ \A i \in MatchedBlock : calls'[i] = calls[i]
      ]_vars

\* C19 witness: an unblockAll has just returned 1, having released the second
\* call to be given a Block, while the first call to be given one, matched
\* before the swap, has not registered yet.
C19_Witness ==
    /\ ret = [op |-> "unblockAll", val |-> 1]
    /\ Len(calls) = 2
    /\ calls[1].behavior = BlockB
    /\ calls[1].pc = "matched"
    /\ calls[2].behavior = BlockB
    /\ calls[2].pc = "done"
    /\ calls[2].result = "ok"

\* C20: a check that matches changes, in the fault table, only the first
\* fault of its class matching its value: that fault loses one match (or is
\* erased with its last, or stays as it is when unlimited), and every other
\* fault of the class, later matching ones included, keeps its counter and
\* its place among the others, as does every other class; the match adds
\* nothing to the registry.  The registry gains an entry only when a call
\* that was given a Block registers, one entry at the end of its class's
\* list.  An unblock / unblockWithError leaves the blocked lists of the other
\* classes and the whole fault table as they were.
C20_MatchAndUnblockFrame ==
    [][/\ Len(calls') = Len(calls) + 1 =>
             LET c == calls'[Len(calls')]
                 list == ListOf(faults, c.keyClass)
                 M == Matching(list, c.keyValue)
             IN M # {} =>
                  LET j == CHOOSE j \in M : \A k \in M : j <= k
                      after == ListOf(faults', c.keyClass)
                  IN /\ DOMAIN faults' \ {c.keyClass} = DOMAIN faults \ {c.keyClass}
                     /\ \A d \in DOMAIN faults \ {c.keyClass} : faults'[d] = faults[d]
                     /\ IF list[j].countRemaining = 1
                          THEN /\ Len(after) = Len(list) - 1
                               /\ \A k \in 1..(j - 1) : after[k] = list[k]
                               /\ \A k \in j..Len(after) : after[k] = list[k + 1]
                          ELSE /\ Len(after) = Len(list)
                               /\ \A k \in (1..Len(list)) \ {j} : after[k] = list[k]
                               /\ after[j] =
                                     [list[j] EXCEPT !.countRemaining =
                                         IF @ = 0 THEN 0 ELSE @ - 1]
                     /\ blockedChecks' = blockedChecks
                     /\ \A i \in 1..Len(calls) : calls'[i] = calls[i]
       /\ \A i \in TablePromises(blockedChecks') : calls'[i].behavior.kind = "Block"
       /\ TablePromises(blockedChecks') \ TablePromises(blockedChecks) # {} =>
             \E i \in MatchedBlock :
                 /\ calls'[i].pc = "blocked"
                 /\ blockedChecks' =
                       MapPut(blockedChecks, calls[i].keyClass,
                              Append(ListOf(blockedChecks, calls[i].keyClass),
                                     [keyValue |-> calls[i].keyValue, promise |-> i]))
                 /\ faults' = faults
       /\ \A o \in DOMAIN ops' \ DOMAIN ops :
             ops'[o].kind \in UnblockKinds =>
                /\ \A d \in Classes \ {ops'[o].keyClass} :
                      /\ d \in DOMAIN blockedChecks' <=> d \in DOMAIN blockedChecks
                      /\ ListOf(blockedChecks', d) = ListOf(blockedChecks, d)
                /\ faults' = faults
       /\ \A o \in DOMAIN ops \ DOMAIN ops' :
             ops[o].kind \in UnblockKinds =>
                /\ blockedChecks' = blockedChecks
                /\ faults' = faults
      ]_vars

\* C20 witness: a call was given a Block by a fault registered with count 2,
\* which now has one match left, and has registered as blocked; behind that
\* fault in the list is an Error fault whose pattern also matches the call's
\* value, registered before the call was made, with the count it was
\* registered with.
C20_Witness ==
    \E i \in 1..Len(calls) :
        LET list == ListOf(faults, calls[i].keyClass)
        IN /\ calls[i].behavior = BlockB
           /\ calls[i].pc = "blocked"
           /\ i \in Promises(ListOf(blockedChecks, calls[i].keyClass))
           /\ Len(list) = 2
           /\ list[1].id = calls[i].fault
           /\ faultLog[list[1].id].count = 2
           /\ list[1].countRemaining = 1
           /\ list[2].behavior.kind = "Error"
           /\ RegexMatch(calls[i].keyValue, list[2].keyValueRegex)
           /\ faultLog[list[2].id].regAfter < i
           /\ faultLog[list[2].id].count = 2
           /\ list[2].countRemaining = 2

====
